---------------------------- MODULE Spec2Model ----------------------------
(***************************************************************************)
(* A model of anonymizedf: the EDF+ header compliance fixer (fixer.py),    *)
(* the file repair pipeline (fix_edf_file) and the record model            *)
(* (model.py, driven by editor.py).                                        *)
(*                                                                         *)
(* Text is a sequence of one-character strings; a byte of a header is the  *)
(* character it decodes to.  Python indices are 0-based and are kept so:   *)
(* element n of a Python list s is s[n + 1] here.                          *)
(***************************************************************************)
EXTENDS Integers, Sequences, FiniteSets, TLC

VARIABLES
    fields,        \* process_field_guesses: the token list it is given
    guesses,       \* process_field_guesses: the guess list it is given
    pfg,           \* what process_field_guesses did with them
    lpi_out,       \* heuristic merge of pfg into a patient field
    f_kind,        \* field text: "lpi" or "lri"
    f_text,        \* field text: the field given to a fixer
    f_first,       \* field text: the fixer called on it and what it did
    f_second,      \* field text: basic_fix_* called on the first result
    header,        \* fix_edfplus_header: the header bytes it is given
    hdr_out,       \* fix_edfplus_header: what the call did
    files,         \* fix_edf_file: the directory, path -> bytes
    before,        \* fix_edf_file: the directory as the last call found it
    last,          \* fix_edf_file: the last call and how it ended
    prev,          \* fix_edf_file: the call made just before the last one
    calls,         \* fix_edf_file: calls made so far
    others,        \* fix_edf_file: changes other programs made so far
    m_open,        \* EDFModel: a model has been constructed
    m_header,      \* EDFModel._header
    m_annots,      \* EDFModel._annots
    m_signals,     \* EDFModel._signals
    m_signal_headers,  \* EDFModel._signal_headers
    loaded,        \* EDFModel: sample arrays and signal headers read at load
    writes,        \* EDFModel: the write_edf calls made by write
    m_edits,       \* EDFModel: the fields given to the last update_header
    e_shown,       \* editor: the panels of an EditorFrame have been set up
    e_loaded,      \* editor: the annotations the panel was set up from
    e_fields,      \* editor: EditorHeaderPanel.field_elements, value and checkbox
    e_inputs,      \* editor: annots_elements, text of each input control
    e_checked,     \* editor: annots_elements, state of each remove checkbox
    e_saves,       \* editor: the saves made, controls and list handed over
    a_files,       \* open_editor: the directory, path -> bytes
    a_last,        \* open_editor: what the last call did
    a_opens        \* open_editor: calls made so far

guess_vars == <<fields, guesses, pfg, lpi_out>>
field_vars == <<f_kind, f_text, f_first, f_second>>
header_vars == <<header, hdr_out>>
file_vars == <<files, before, last, prev, calls, others>>
model_vars == <<m_open, m_header, m_annots, m_signals, m_signal_headers, loaded, writes,
               m_edits>>
editor_vars == <<e_shown, e_loaded, e_fields, e_inputs, e_checked, e_saves>>
app_vars == <<a_files, a_last, a_opens>>

vars == <<fields, guesses, pfg, lpi_out, f_kind, f_text, f_first, f_second,
          header, hdr_out, files, before, last, prev, calls, others,
          m_open, m_header, m_annots, m_signals, m_signal_headers, loaded, writes,
          m_edits, e_shown, e_loaded, e_fields, e_inputs, e_checked, e_saves,
          a_files, a_last, a_opens>>

-----------------------------------------------------------------------------
(* Text helpers: Python str operations used by fixer.py                    *)

UPPER == <<"A","B","C","D","E","F","G","H","I","J","K","L","M",
           "N","O","P","Q","R","S","T","U","V","W","X","Y","Z">>
LOWER == <<"a","b","c","d","e","f","g","h","i","j","k","l","m",
           "n","o","p","q","r","s","t","u","v","w","x","y","z">>
DIGITS == <<"0","1","2","3","4","5","6","7","8","9">>

Range(s) == {s[i] : i \in DOMAIN s}

IndexIn(c, s) == CHOOSE i \in DOMAIN s : s[i] = c

\* str.lower() / str.upper(), one character
lower_ch(c) == IF c \in Range(UPPER) THEN LOWER[IndexIn(c, UPPER)] ELSE c
upper_ch(c) == IF c \in Range(LOWER) THEN UPPER[IndexIn(c, LOWER)] ELSE c

lower(s) == [i \in DOMAIN s |-> lower_ch(s[i])]
upper(s) == [i \in DOMAIN s |-> upper_ch(s[i])]

\* s[a:b] with Python's clamping, a and b 0-based and non-negative
Slice(s, a, b) ==
    LET hi == IF b < Len(s) THEN b ELSE Len(s)
    IN  IF a >= hi THEN <<>> ELSE SubSeq(s, a + 1, hi)

\* s[a:]
SliceFrom(s, a) == Slice(s, a, Len(s))

Spaces(n) == [i \in 1..n |-> " "]

\* str.ljust(width)
ljust(s, width) == s \o Spaces(width - Len(s))

NonSpace(s) == {i \in DOMAIN s : s[i] # " "}

Least(S) == CHOOSE i \in S : \A j \in S : i <= j
Greatest(S) == CHOOSE i \in S : \A j \in S : j <= i

\* str.strip()
strip(s) ==
    IF NonSpace(s) = {} THEN <<>>
    ELSE SubSeq(s, Least(NonSpace(s)), Greatest(NonSpace(s)))

\* re.split(r" +", s): cut at every run of spaces; a leading or trailing run
\* leaves an empty first or last token, and "" splits to [""].
Indices(s) == [i \in 1..Len(s) |-> i]

\* where the runs of spaces of s start, and where they end
run_starts(s) ==
    LET Starts(i) == s[i] = " " /\ (i = 1 \/ s[i - 1] # " ")
    IN  SelectSeq(Indices(s), Starts)

run_ends(s) ==
    LET Ends(i) == s[i] = " " /\ (i = Len(s) \/ s[i + 1] # " ")
    IN  SelectSeq(Indices(s), Ends)

re_split(s) ==
    LET starts == run_starts(s)
        ends == run_ends(s)
        r == Len(starts)
    IN  [k \in 1..(r + 1) |->
            SubSeq(s, IF k = 1 THEN 1 ELSE ends[k - 1] + 1,
                      IF k = r + 1 THEN Len(s) ELSE starts[k] - 1)]

\* " ".join(tokens)
RECURSIVE join(_)
join(tokens) ==
    IF tokens = <<>> THEN <<>>
    ELSE IF Len(tokens) = 1 THEN tokens[1]
    ELSE tokens[1] \o <<" ">> \o join(Tail(tokens))

\* Characters outside ASCII are named by their code point: "xE9" is
\* U+00E9 (e acute), "xC3" is U+00C3 (A tilde), "xA9" is U+00A9 (copyright),
\* "x5317" is U+5317 (the ideograph read "bei").
NonAscii == {"xE9", "xC3", "xA9", "x5317"}

IsAscii(c) == c \notin NonAscii

\* unidecode(s): ASCII stays, an accented letter becomes its base letter, a
\* symbol is spelled out and an ideograph becomes its reading followed by a
\* space
unidecode_ch(c) ==
    CASE c = "xE9" -> <<"e">>
      [] c = "x5317" -> <<"B", "e", "i", " ">>
      [] c = "xC3" -> <<"A">>
      [] c = "xA9" -> <<"(", "c", ")">>
      [] OTHER -> <<c>>

\* character by character, the text cut in halves
RECURSIVE unidecode(_)
unidecode(s) ==
    IF s = <<>> THEN <<>>
    ELSE IF Len(s) = 1 THEN unidecode_ch(s[1])
    ELSE unidecode(SubSeq(s, 1, Len(s) \div 2))
         \o unidecode(SubSeq(s, Len(s) \div 2 + 1, Len(s)))

X == <<"X">>
STARTDATE == <<"S","t","a","r","t","d","a","t","e">>

-----------------------------------------------------------------------------
(* Dates                                                                   *)

MONTHS == << <<"J","A","N">>, <<"F","E","B">>, <<"M","A","R">>, <<"A","P","R">>,
             <<"M","A","Y">>, <<"J","U","N">>, <<"J","U","L">>, <<"A","U","G">>,
             <<"S","E","P">>, <<"O","C","T">>, <<"N","O","V">>, <<"D","E","C">> >>

\* Python's None where a date is expected
None == [day |-> 0, month |-> 0, year |-> 0]

DigitCh(d) == DIGITS[d + 1]

\* f"{n:02}" and f"{n:04}" for the day and year of a date
Pad2(n) == <<DigitCh((n \div 10) % 10), DigitCh(n % 10)>>
Pad4(n) == <<DigitCh((n \div 1000) % 10), DigitCh((n \div 100) % 10),
             DigitCh((n \div 10) % 10), DigitCh(n % 10)>>

format_edf_long_date(date) ==
    Pad2(date.day) \o <<"-">> \o MONTHS[date.month] \o <<"-">> \o Pad4(date.year)

IsDigit(c) == c \in Range(DIGITS)
\* a character of [^\d\W] other than "_": a letter, ASCII or not
IsLetter(c) == c \in Range(UPPER) \cup Range(LOWER) \cup {"xE9", "xC3"}

DigitVal(c) == IndexIn(c, DIGITS) - 1

RECURSIVE NumVal(_)
NumVal(s) == IF s = <<>> THEN 0 ELSE NumVal(SubSeq(s, 1, Len(s) - 1)) * 10 + DigitVal(s[Len(s)])

AllDigits(s) == \A i \in DOMAIN s : IsDigit(s[i])

ValidDate(d, m, y) == d \in 1..31 /\ m \in 1..12 /\ y \in 1..9999

\* re.match(r"^\d{2}-[^\d\W]+-\d{4}$", field)
strict_date_shape(field) ==
    /\ Len(field) >= 9
    /\ AllDigits(SubSeq(field, 1, 2))
    /\ field[3] = "-"
    /\ field[Len(field) - 4] = "-"
    /\ AllDigits(SubSeq(field, Len(field) - 3, Len(field)))
    /\ \A i \in 4..(Len(field) - 5) : IsLetter(field[i]) \/ field[i] = "_"

\* dateparser.parse(field), for the two spellings of a date the model's
\* inputs use: DD-<month abbreviation>-YYYY in any letter case and
\* YYYY-MM-DD.  Any other text is no date.
dateparser_parse(field) ==
    IF /\ Len(field) = 11
       /\ strict_date_shape(field)
       /\ upper(SubSeq(field, 4, 6)) \in Range(MONTHS)
       /\ ValidDate(NumVal(SubSeq(field, 1, 2)), 1, NumVal(SubSeq(field, 8, 11)))
    THEN [day |-> NumVal(SubSeq(field, 1, 2)),
          month |-> IndexIn(upper(SubSeq(field, 4, 6)), MONTHS),
          year |-> NumVal(SubSeq(field, 8, 11))]
    ELSE IF /\ Len(field) = 10
            /\ field[5] = "-" /\ field[8] = "-"
            /\ AllDigits(SubSeq(field, 1, 4))
            /\ AllDigits(SubSeq(field, 6, 7))
            /\ AllDigits(SubSeq(field, 9, 10))
            /\ ValidDate(NumVal(SubSeq(field, 9, 10)), NumVal(SubSeq(field, 6, 7)),
                         NumVal(SubSeq(field, 1, 4)))
    THEN [day |-> NumVal(SubSeq(field, 9, 10)),
          month |-> NumVal(SubSeq(field, 6, 7)),
          year |-> NumVal(SubSeq(field, 1, 4))]
    ELSE None

-----------------------------------------------------------------------------
(* process_field_guesses                                                   *)

\* sorted(guesses, key=confidence): ascending and stable
RECURSIVE sorted_by_confidence(_)
sorted_by_confidence(gs) ==
    IF gs = <<>> THEN <<>>
    ELSE LET lo == CHOOSE c \in {gs[i].confidence : i \in DOMAIN gs} :
                       \A i \in DOMAIN gs : c <= gs[i].confidence
             IsLo(g) == g.confidence = lo
             NotLo(g) == g.confidence # lo
         IN  SelectSeq(gs, IsLo) \o sorted_by_confidence(SelectSeq(gs, NotLo))

\* One turn of the while loop: g has just been popped.
resolve_step(compliant_fields, g) ==
    IF g.type \notin DOMAIN compliant_fields
    THEN [t \in DOMAIN compliant_fields \cup {g.type} |->
             IF t = g.type THEN g ELSE compliant_fields[t]]
    ELSE IF /\ compliant_fields[g.type].confidence = g.confidence
            /\ compliant_fields[g.type].value # g.value
         THEN [t \in DOMAIN compliant_fields \ {g.type} |-> compliant_fields[t]]
         ELSE compliant_fields

\* The while loop: pop() takes the last element of the sorted list.
RECURSIVE resolve(_, _)
resolve(field_type_guesses, compliant_fields) ==
    IF field_type_guesses = <<>> THEN compliant_fields
    ELSE resolve(SubSeq(field_type_guesses, 1, Len(field_type_guesses) - 1),
                 resolve_step(compliant_fields,
                              field_type_guesses[Len(field_type_guesses)]))

\* sorted(indices, reverse=True), of a bag of indices given as a sequence
RECURSIVE sorted_reverse(_)
sorted_reverse(ns) ==
    IF ns = <<>> THEN <<>>
    ELSE LET hi == CHOOSE n \in Range(ns) : \A m \in Range(ns) : m <= n
             IsHi(n) == n = hi
             NotHi(n) == n # hi
         IN  SelectSeq(ns, IsHi) \o sorted_reverse(SelectSeq(ns, NotHi))

\* del fields[n]
del_at(fs, n) == SubSeq(fs, 1, n) \o SubSeq(fs, n + 2, Len(fs))

\* for n in ...: del fields[n] -- raises IndexError past the end
RECURSIVE del_all(_, _)
del_all(fs, ns) ==
    IF ns = <<>> THEN [err |-> "none", fields |-> fs]
    ELSE IF Head(ns) >= Len(fs) THEN [err |-> "IndexError", fields |-> fs]
    ELSE del_all(del_at(fs, Head(ns)), Tail(ns))

\* The source indices of the accepted guesses, one per accepted type
RECURSIVE accepted_indices(_, _)
accepted_indices(compliant_fields, types) ==
    IF types = {} THEN <<>>
    ELSE LET t == CHOOSE u \in types : TRUE
         IN  <<compliant_fields[t].field>> \o
             accepted_indices(compliant_fields, types \ {t})

process_field_guesses(fs, gs) ==
    LET compliant_fields == resolve(sorted_by_confidence(gs), <<>>)
        deleted == del_all(fs, sorted_reverse(
                       accepted_indices(compliant_fields, DOMAIN compliant_fields)))
    IN  [err |-> deleted.err,
         accepted |-> compliant_fields,
         best_guesses |-> [t \in DOMAIN compliant_fields |-> compliant_fields[t].value],
         extra_fields |-> deleted.fields]

-----------------------------------------------------------------------------
(* The guessers                                                            *)

\* The guesses token fields[n + 1] (Python index n) gives as patient text:
\* a sex guess first, then a birthdate guess.
patient_guesses_of(field, n) ==
    (IF lower(field) \in {<<"m">>, <<"f">>}
     THEN <<[type |-> "sex", value |-> upper(field), confidence |-> 5, field |-> n]>>
     ELSE <<>>)
    \o
    (IF dateparser_parse(field) # None
     THEN <<[type |-> "birthdate", value |-> dateparser_parse(field),
             confidence |-> IF strict_date_shape(field) THEN 8 ELSE 5,
             field |-> n]>>
     ELSE <<>>)

RECURSIVE guess_patient_from(_, _)
guess_patient_from(fs, n) ==
    IF n >= Len(fs) THEN <<>>
    ELSE patient_guesses_of(fs[n + 1], n) \o guess_patient_from(fs, n + 1)

\* Confidence is kept in tenths: 5 is 0.5 and 8 is 0.8.
guess_patient_fields(fs) == guess_patient_from(fs, 0)

recording_guesses_of(field, n) ==
    IF dateparser_parse(field) # None
    THEN <<[type |-> "startdate", value |-> dateparser_parse(field),
            confidence |-> IF strict_date_shape(field) THEN 8 ELSE 5,
            field |-> n]>>
    ELSE <<>>

RECURSIVE guess_recording_from(_, _)
guess_recording_from(fs, n) ==
    IF n >= Len(fs) THEN <<>>
    ELSE recording_guesses_of(fs[n + 1], n) \o guess_recording_from(fs, n + 1)

guess_recording_fields(fs) == guess_recording_from(fs, 0)

-----------------------------------------------------------------------------
(* The strict and the heuristic path of the two fields.  A result is       *)
(* [err, value]: err is "none" when the call returns value, and the name   *)
(* of the exception it raises otherwise.                                   *)

Returned(value) == [err |-> "none", value |-> value]
Raised(name) == [err |-> name, value |-> <<>>]

\* dict.get(key, "X")
get_or_X(best_guesses, key) ==
    IF key \in DOMAIN best_guesses THEN best_guesses[key] ELSE X

\* The token list heuristic_fix_lpi_format joins: the four canonical slots,
\* then extra_fields.
\* The merge of the patient slots with the birthdate before the sex
lpi_fields_birthdate_first(best_guesses, extra_fields) ==
    << get_or_X(best_guesses, "code"),
       IF "birthdate" \in DOMAIN best_guesses
       THEN format_edf_long_date(best_guesses["birthdate"]) ELSE X,
       get_or_X(best_guesses, "sex"),
       get_or_X(best_guesses, "name") >> \o extra_fields

lpi_compliant_fields(best_guesses, extra_fields) ==
    << get_or_X(best_guesses, "code"),
       get_or_X(best_guesses, "sex"),
       IF "birthdate" \in DOMAIN best_guesses
       THEN format_edf_long_date(best_guesses["birthdate"]) ELSE X,
       get_or_X(best_guesses, "name") >> \o extra_fields

lri_compliant_fields(best_guesses, extra_fields) ==
    << STARTDATE,
       IF "startdate" \in DOMAIN best_guesses
       THEN format_edf_long_date(best_guesses["startdate"]) ELSE X,
       get_or_X(best_guesses, "code"),
       get_or_X(best_guesses, "technician"),
       get_or_X(best_guesses, "equipment") >> \o extra_fields

\* heuristic_fix_lpi_format from the call of process_field_guesses on
heuristic_merge_lpi(processed) ==
    IF processed.err # "none" THEN Raised(processed.err)
    ELSE Returned(unidecode(join(
             lpi_compliant_fields(processed.best_guesses, processed.extra_fields))))

heuristic_merge_lri(processed) ==
    IF processed.err # "none" THEN Raised(processed.err)
    ELSE Returned(unidecode(join(
             lri_compliant_fields(processed.best_guesses, processed.extra_fields))))

heuristic_fix_lpi_format(lpi) ==
    heuristic_merge_lpi(
        process_field_guesses(re_split(lpi), guess_patient_fields(re_split(lpi))))

heuristic_fix_lri_format(lri) ==
    heuristic_merge_lri(
        process_field_guesses(re_split(lri), guess_recording_fields(re_split(lri))))

\* fields.extend(["X"] * (n - len(fields)))
RECURSIVE pad_X(_, _)
pad_X(fs, n) == IF Len(fs) >= n THEN fs ELSE pad_X(Append(fs, X), n)

\* fields[n] = token, n a Python index
set_at(fs, n, token) == [k \in 1..Len(fs) |-> IF k = n + 1 THEN token ELSE fs[k]]

\* The strict patient fixer without its check of the sex token
lpi_format_unchecked_sex(lpi) ==
    LET fs == pad_X(re_split(lpi), 4)
    IN  IF lower(fs[3]) # <<"x">>
        THEN IF dateparser_parse(fs[3]) = None
             THEN Raised("FieldFormatError")
             ELSE Returned(unidecode(join(
                      set_at(fs, 2, format_edf_long_date(dateparser_parse(fs[3]))))))
        ELSE Returned(unidecode(join(fs)))

basic_fix_lpi_format(lpi) ==
    LET fs == pad_X(re_split(lpi), 4)
    IN  IF lower(fs[2]) \notin {<<"m">>, <<"f">>, <<"x">>}
        THEN Raised("FieldFormatError")
        ELSE IF lower(fs[3]) # <<"x">>
             THEN IF dateparser_parse(fs[3]) = None
                  THEN Raised("FieldFormatError")
                  ELSE Returned(unidecode(join(
                           set_at(fs, 2, format_edf_long_date(dateparser_parse(fs[3]))))))
             ELSE Returned(unidecode(join(fs)))

basic_fix_lri_format(lri) ==
    LET fs == pad_X(re_split(lri), 5)
    IN  IF lower(fs[1]) # lower(STARTDATE)
        THEN Raised("FieldFormatError")
        ELSE LET gs == set_at(fs, 0, STARTDATE)
             IN  IF lower(gs[2]) # <<"x">>
                 THEN IF dateparser_parse(gs[2]) = None
                      THEN Raised("FieldFormatError")
                      ELSE Returned(unidecode(join(
                               set_at(gs, 1, format_edf_long_date(dateparser_parse(gs[2]))))))
                 ELSE Returned(unidecode(join(gs)))

-----------------------------------------------------------------------------
(* Conflict resolution on its own: process_field_guesses and the patient   *)
(* merge applied to a token list and a guess list over it.                 *)

MaxLen == 3        \* longest token list given to process_field_guesses
MaxGuesses == 4    \* longest guess list given to it

D1 == [day |-> 1, month |-> 1, year |-> 2000]
D2 == [day |-> 2, month |-> 2, year |-> 2001]

\* The guesses a caller may pass for a list of n tokens: a sex, a birthdate
\* or a name, at either confidence, from any token of the list.
GuessChoices(n) ==
    [type : {"sex"}, value : {<<"M">>, <<"F">>}, confidence : {5, 8}, field : 0..(n - 1)]
    \cup
    [type : {"birthdate"}, value : {D1, D2}, confidence : {5, 8}, field : 0..(n - 1)]
    \cup
    [type : {"name"}, value : {<<"N">>}, confidence : {5}, field : 0..(n - 1)]

\* n distinct one-letter tokens: a, b, c, ...
TokenList(n) == [i \in 1..n |-> <<LOWER[i]>>]

Pending == [err |-> "pending", accepted |-> <<>>, best_guesses |-> <<>>,
            extra_fields |-> <<>>]

GuessIdle ==
    /\ fields = <<>>
    /\ guesses = <<>>
    /\ pfg = Pending
    /\ lpi_out = Raised("pending")

GuessStart ==
    /\ \E n \in 1..MaxLen :
          /\ fields = TokenList(n)
          /\ \E k \in 0..MaxGuesses : guesses \in [1..k -> GuessChoices(n)]
    /\ pfg = Pending
    /\ lpi_out = Raised("pending")

\* heuristic_fix_lpi_format, from the guesses on
ProcessGuesses ==
    /\ pfg.err = "pending"
    /\ fields # <<>>
    /\ pfg' = process_field_guesses(fields, guesses)
    /\ lpi_out' = heuristic_merge_lpi(process_field_guesses(fields, guesses))
    /\ UNCHANGED <<fields, guesses, field_vars, header_vars, file_vars, model_vars, editor_vars, app_vars>>

-----------------------------------------------------------------------------
(* The fixers of one field, on field texts built from a few tokens.        *)

MaxTokens == 4     \* most tokens a field text is built from

T_x == <<"x">>
T_f == <<"f">>
T_Q == <<"Q">>
T_DMY == <<"0", "1", "-", "J", "a", "n", "-", "2", "0", "0", "0">>
T_ISO == <<"2", "0", "0", "1", "-", "0", "2", "-", "0", "2">>
T_ZOE == <<"Z", "o", "xE9">>

\* The empty token puts a leading, doubled or trailing space in the text.
LpiTokens == {X, T_x, T_f, T_Q, T_DMY, T_ISO, T_ZOE, <<>>}
LriTokens == {STARTDATE, upper(STARTDATE), X, T_Q, T_DMY, T_ISO, <<>>}

FieldTexts(tokens) ==
    {join(ts) : ts \in UNION {[1..k -> tokens] : k \in 0..MaxTokens}}

NotCalled == [op |-> "none", err |-> "pending", value |-> <<>>]

Called(op, result) == [op |-> op, err |-> result.err, value |-> result.value]

FieldIdle ==
    /\ f_kind = "none"
    /\ f_text = <<>>
    /\ f_first = NotCalled
    /\ f_second = NotCalled

FieldStart ==
    /\ \/ f_kind = "lpi" /\ f_text \in FieldTexts(LpiTokens)
       \/ f_kind = "lri" /\ f_text \in FieldTexts(LriTokens)
    /\ f_first = NotCalled
    /\ f_second = NotCalled

basic_fix(kind, text) ==
    IF kind = "lpi" THEN basic_fix_lpi_format(text) ELSE basic_fix_lri_format(text)

heuristic_fix(kind, text) ==
    IF kind = "lpi" THEN heuristic_fix_lpi_format(text) ELSE heuristic_fix_lri_format(text)

\* basic_fix_lpi_format(f_text) or basic_fix_lri_format(f_text)
BasicFix ==
    /\ f_kind # "none"
    /\ f_first.op = "none"
    /\ f_first' = Called("basic", basic_fix(f_kind, f_text))
    /\ UNCHANGED <<f_kind, f_text, f_second, guess_vars, header_vars, file_vars, model_vars, editor_vars, app_vars>>

\* heuristic_fix_lpi_format(f_text) or heuristic_fix_lri_format(f_text)
HeuristicFix ==
    /\ f_kind # "none"
    /\ f_first.op = "none"
    /\ f_first' = Called("heuristic", heuristic_fix(f_kind, f_text))
    /\ UNCHANGED <<f_kind, f_text, f_second, guess_vars, header_vars, file_vars, model_vars, editor_vars, app_vars>>

\* basic_fix_* called on what the first call returned
BasicFixAgain ==
    /\ f_first.op # "none"
    /\ f_first.err = "none"
    /\ f_second.op = "none"
    /\ f_second' = Called("basic", basic_fix(f_kind, f_first.value))
    /\ UNCHANGED <<f_kind, f_text, f_first, guess_vars, header_vars, file_vars, model_vars, editor_vars, app_vars>>

-----------------------------------------------------------------------------
(* The strict patient fixer on fields that are compliant already.          *)

MaxFields == 5     \* most tokens of a compliant patient field

T_BOB == <<"B", "o", "b">>
T_BEI == <<"x5317">>
T_EDF == <<"0", "2", "-", "F", "E", "B", "-", "2", "0", "0", "1">>

\* Token lists of a compliant patient field: at least 4 tokens, a sex of
\* M, F or X and a birthdate of X or DD-MMM-YYYY; codes and names in ASCII
\* or not.
CompliantLpiFields ==
    UNION {[1..k -> {X, T_BOB, T_ZOE, T_BEI}] : k \in 4..MaxFields}

CompliantLpi(ts, sex, birthdate) ==
    [k \in DOMAIN ts |-> IF k = 2 THEN sex ELSE IF k = 3 THEN birthdate ELSE ts[k]]

CompliantStart ==
    /\ f_kind = "lpi"
    /\ \E ts \in CompliantLpiFields, sex \in {<<"M">>, <<"F">>, X}, birthdate \in {X, T_EDF} :
          f_text = join(CompliantLpi(ts, sex, birthdate))
    /\ f_first = NotCalled
    /\ f_second = NotCalled

-----------------------------------------------------------------------------
(* fix_edfplus_header                                                      *)

\* The bytes of a header are named as the characters are: an ASCII byte by
\* its character, 0xE9, 0xC3 and 0xA9 by "xE9", "xC3" and "xA9".  In UTF-8
\* the two bytes C3 A9 are the one character U+00E9; in Latin-1 every byte
\* is the character of its own code point.

AllAscii(bytes) == \A i \in DOMAIN bytes : IsAscii(bytes[i])

valid_utf8(bytes) ==
    \A i \in DOMAIN bytes :
        /\ bytes[i] # "xE9"
        /\ bytes[i] = "xC3" => (i < Len(bytes) /\ bytes[i + 1] = "xA9")
        /\ bytes[i] = "xA9" => (i > 1 /\ bytes[i - 1] = "xC3")

\* bytes.decode("utf-8") of valid UTF-8: C3 A9 is U+00E9
decode_utf8(bytes) ==
    LET NotContinuation(b) == b # "xA9"
        leads == SelectSeq(bytes, NotContinuation)
    IN  [i \in DOMAIN leads |-> IF leads[i] = "xC3" THEN "xE9" ELSE leads[i]]

\* chardet.detect(header)["encoding"]: the charsets the detector may name,
\* each of which decodes the bytes; None when there are no bytes
detect(bytes) ==
    IF bytes = <<>> THEN {"None"}
    ELSE IF AllAscii(bytes) THEN {"ascii"}
    ELSE {"latin-1"} \cup (IF valid_utf8(bytes) THEN {"utf-8"} ELSE {})

\* header.decode(encoding)
decode(bytes, encoding) ==
    IF encoding = "utf-8" THEN decode_utf8(bytes) ELSE bytes

EDF_PLUS_C == <<"E", "D", "F", "+", "C">>

\* One field of the header handled by the strict fixer alone
fix_field_strict_only(kind, text) == Called("basic", basic_fix(kind, text))

\* One field of the header: the strict fixer, and the heuristic one when
\* the strict one raises FieldFormatError.
fix_field(kind, text) ==
    IF basic_fix(kind, text).err = "FieldFormatError"
    THEN Called("heuristic", heuristic_fix(kind, text))
    ELSE Called("basic", basic_fix(kind, text))

corr_header(dec_header, compliant_lpi, compliant_lri) ==
    ljust(<<"0">>, 8)
    \o ljust(Slice(compliant_lpi, 0, 80), 80)
    \o ljust(Slice(compliant_lri, 0, 80), 80)
    \o Slice(dec_header, 168, 168 + 24)
    \o ljust(EDF_PLUS_C, 44)
    \o SliceFrom(dec_header, 236)

\* str.encode("ascii")
encode_ascii(text) ==
    IF AllAscii(text) THEN Returned(text) ELSE Raised("UnicodeEncodeError")

\* fix_edfplus_header(header), the detector having named `encoding`.  The
\* result also says which fixer handled each field.
fix_edfplus_header(bytes, encoding) ==
    LET dec_header == decode(bytes, encoding)
        lpi == strip(Slice(dec_header, 8, 8 + 80))
        lri == strip(Slice(dec_header, 88, 88 + 80))
        fixed_lpi == fix_field("lpi", lpi)
        fixed_lri == fix_field("lri", lri)
        encoded == encode_ascii(
                       corr_header(dec_header, fixed_lpi.value, fixed_lri.value))
    IN  [err |-> IF encoding = "None" THEN "TypeError"
                 ELSE IF fixed_lpi.err # "none" THEN fixed_lpi.err
                 ELSE IF fixed_lri.err # "none" THEN fixed_lri.err
                 ELSE encoded.err,
         value |-> IF encoding # "None" /\ fixed_lpi.err = "none" /\ fixed_lri.err = "none"
                   THEN encoded.value ELSE <<>>,
         encoding |-> encoding,
         lpi_path |-> fixed_lpi.op,
         lri_path |-> IF fixed_lpi.err = "none" THEN fixed_lri.op ELSE "none"]

\* Input headers: the six fields of the 256 bytes, each from a few samples
Versions == {<<"0">>, <<"B", "I", "O", "S", "E", "M", "I">>}
LpiSamples == {
    <<"X", " ", "Q", " ", "0", "1", "-", "J", "a", "n", "-", "2", "0", "0", "0", " ", "X">>,
    <<"X", " ", "F", " ", "0", "1", "-", "J", "A", "N", "-", "2", "0", "0", "0", " ", "X">>,
    <<"X", " ", "f", " ", "2", "0", "0", "1", "-", "0", "2", "-", "0", "2", " ", "Z", "o", "xE9">>,
    <<"Z", "o", "xC3", "xA9", " ", "M", " ", "0", "1", "-", "J", "a", "n", "-", "2", "0", "0", "0">>,
    <<"B", "o", "b", " ", "2", "0", "0", "1", "-", "0", "2", "-", "0", "2", " ", "f">>,
    <<>> }
LriSamples == {
    <<"S", "t", "a", "r", "t", "d", "a", "t", "e", " ", "0", "1", "-", "J", "A", "N", "-", "2", "0", "0", "0", " ", "X", " ", "X", " ", "X">>,
    <<"s", "t", "a", "r", "t", "d", "a", "t", "e", " ", "2", "0", "0", "1", "-", "0", "2", "-", "0", "2">>,
    <<"0", "1", "-", "J", "a", "n", "-", "2", "0", "0", "0", " ", "L", "a", "b">>,
    <<"S", "t", "a", "r", "t", "d", "a", "t", "e", " ", "Q">>,
    <<>> }
StartAndSize == <<"0", "1", ".", "0", "1", ".", "0", "0", "1", "2", ".", "0", "0", ".", "0", "0", "7", "6", "8", " ", " ", " ", " ", " ">>
ReservedSamples == {<<>>, <<"E", "D", "F", "+", "D">>}
TailSamples == {
    <<"1", "0", " ", " ", " ", " ", " ", " ", "1", " ", " ", " ", " ", " ", " ", " ", "2", " ", " ", " ">>,
    <<"1", "0", " ", " ", " ", " ", " ", " ", "1", "xE9", " ", " ", " ", " ", " ", " ", "2", " ", " ", " ">> }

MakeHeader(version, lpi, lri, reserved, tail) ==
    ljust(version, 8) \o ljust(lpi, 80) \o ljust(lri, 80) \o StartAndSize
    \o ljust(reserved, 44) \o tail

Headers ==
    {MakeHeader(v, p, r, t, z) :
        v \in Versions, p \in LpiSamples, r \in LriSamples,
        t \in ReservedSamples, z \in TailSamples}

NoHeaderCall == [err |-> "pending", value |-> <<>>, encoding |-> "none",
                 lpi_path |-> "none", lri_path |-> "none"]

HeaderIdle ==
    /\ header = <<>>
    /\ hdr_out = NoHeaderCall

HeaderStart ==
    /\ header \in Headers
    /\ hdr_out = NoHeaderCall

FixHeader ==
    /\ header # <<>>
    /\ hdr_out.err = "pending"
    /\ \E encoding \in detect(header) :
           hdr_out' = fix_edfplus_header(header, encoding)
    /\ UNCHANGED <<header, guess_vars, field_vars, file_vars, model_vars, editor_vars, app_vars>>

-----------------------------------------------------------------------------
(* fix_edf_file in a directory of files                                    *)

MaxCalls == 2      \* most calls of fix_edf_file in a behaviour
MaxOthers == 2     \* most files other programs put in the directory

\* A path of the directory: its name is stem \o suffix.
Path(stem, suffix) == [stem |-> stem, suffix |-> suffix]

\* output_path=None
NoPath == Path("", "")

\* path.with_name(stem + ".edf")
with_name_edf(stem) == Path(stem, ".edf")

\* The directory is a function from the paths that exist to their bytes.
exists(fs, path) == path \in DOMAIN fs

write_file(fs, path, bytes) ==
    [p \in DOMAIN fs \cup {path} |-> IF p = path THEN bytes ELSE fs[p]]

unlink(fs, path) == [p \in DOMAIN fs \ {path} |-> fs[p]]

\* f.read(n) from the start of the file
read(bytes, n) == Slice(bytes, 0, n)

\* open("r+b") and f.write(data): data replaces the bytes at offsets
\* 0..len(data)-1 and the file grows when it is shorter than data
overwrite(bytes, data) == data \o SliceFrom(bytes, Len(data))

\* The while loop of _get_copy_path_with_suffix, entered with counter n
RECURSIVE next_free_path(_, _, _, _)
next_free_path(fs, path, suffix, n) ==
    IF exists(fs, with_name_edf(path.stem \o "_" \o suffix \o "_" \o ToString(n)))
    THEN next_free_path(fs, path, suffix, n + 1)
    ELSE with_name_edf(path.stem \o "_" \o suffix \o "_" \o ToString(n))

\* The derived path taken without looking whether it exists
copy_path_unchecked(fs, path, suffix) == with_name_edf(path.stem \o "_" \o suffix)

_get_copy_path_with_suffix(fs, path, suffix) ==
    IF exists(fs, with_name_edf(path.stem \o "_" \o suffix))
    THEN next_free_path(fs, path, suffix, 2)
    ELSE with_name_edf(path.stem \o "_" \o suffix)

\* EdfReader(path) opens the file or raises OSError.  It opens a file that
\* has a whole ASCII header and whose data records are not damaged; "?" is
\* a byte of a damaged record.
reader_opens(bytes) ==
    /\ Len(bytes) >= 256
    /\ AllAscii(read(bytes, 256))
    /\ "?" \notin Range(SliceFrom(bytes, 256))

Ended(fs, err, path) == [files |-> fs, err |-> err, path |-> path]

\* The check of the patched file that leaves it in place when it fails
check_keeping_file(fs, output_path) ==
    IF reader_opens(fs[output_path])
    THEN Ended(fs, "none", output_path)
    ELSE Ended(fs, "RuntimeError", output_path)

\* if check_valid: try EdfReader ... except OSError: unlink, raise
check_patched_file(fs, output_path) ==
    IF reader_opens(fs[output_path])
    THEN Ended(fs, "none", output_path)
    ELSE Ended(unlink(fs, output_path), "RuntimeError", output_path)

\* shutil.copy(src, dst)
copy(fs, src, dst) == write_file(fs, dst, fs[src])

\* with output_path.open("r+b") as f: f.write(fixed_header)
patch(fs, output_path, data) ==
    write_file(fs, output_path, overwrite(fs[output_path], data))

\* output_path as given, or derived when it is None
output_path_of(fs, file_path, output_arg) ==
    IF output_arg = NoPath
    THEN _get_copy_path_with_suffix(fs, file_path, "fixed")
    ELSE output_arg

\* fix_edf_file from the copy on, fix_edfplus_header having ended
write_fixed_file(fs, file_path, output_path, check_valid, fixed_header) ==
    IF fixed_header.err # "none" THEN Ended(fs, fixed_header.err, output_path)
    ELSE IF output_path = file_path THEN Ended(fs, "SameFileError", output_path)
    ELSE IF check_valid
         THEN check_patched_file(
                  patch(copy(fs, file_path, output_path), output_path, fixed_header.value),
                  output_path)
         ELSE Ended(patch(copy(fs, file_path, output_path), output_path, fixed_header.value),
                    "none", output_path)

\* fix_edf_file(file_path, output_path, check_valid) in the directory fs,
\* fix_edfplus_header having ended as fixed_header on the first 256 bytes
\* of the file: the directory the call leaves, the error it ends with
\* ("none" when it returns) and the output path.
fix_edf_file(fs, file_path, output_arg, check_valid, fixed_header) ==
    write_fixed_file(fs, file_path, output_path_of(fs, file_path, output_arg),
        check_valid, fixed_header)

\* The recording the calls are made on, and the files it may be
RecPath == Path("rec", ".edf")
OutPath == Path("out", ".edf")

H_ascii == MakeHeader(<<"0">>,
    <<"X", " ", "Q", " ", "0", "1", "-", "J", "a", "n", "-", "2", "0", "0", "0", " ", "X">>,
    <<"s", "t", "a", "r", "t", "d", "a", "t", "e", " ", "2", "0", "0", "1", "-", "0", "2", "-", "0", "2">>,
    <<>>,
    <<"1", "0", " ", " ", " ", " ", " ", " ", "1", " ", " ", " ", " ", " ", " ", " ", "2", " ", " ", " ">>)
H_utf8 == MakeHeader(<<"0">>,
    <<"Z", "o", "xC3", "xA9", " ", "M", " ", "0", "1", "-", "J", "a", "n", "-", "2", "0", "0", "0">>,
    <<"S", "t", "a", "r", "t", "d", "a", "t", "e", " ", "Q">>,
    <<>>,
    <<"1", "0", " ", " ", " ", " ", " ", " ", "1", " ", " ", " ", " ", " ", " ", " ", "2", " ", " ", " ">>)
H_tail == MakeHeader(<<"0">>,
    <<>>,
    <<>>,
    <<"E", "D", "F", "+", "D">>,
    <<"1", "0", " ", " ", " ", " ", " ", " ", "1", "xE9", " ", " ", " ", " ", " ", " ", "2", " ", " ", " ">>)

GoodRecords == <<"d", "a", "t", "a">>
DamagedRecords == <<"d", "?", "t", "a">>

\* Whole files, a file cut short inside its header, and an empty file
RecFiles ==
    {h \o d : h \in {H_ascii, H_utf8, H_tail}, d \in {GoodRecords, DamagedRecords}}
    \cup {Slice(H_ascii, 0, 100), <<>>}

\* What another program writes
OtherFile == <<"o", "t", "h", "e", "r">>

\* Where another program may put a file
OtherPaths == {with_name_edf("rec_fixed"), with_name_edf("rec_fixed_2"), OutPath}

NoFileCall == [file_path |-> NoPath, output_arg |-> NoPath, check_valid |-> FALSE,
               encoding |-> "none", err |-> "pending", path |-> NoPath]

FileCall(file_path, output_arg, check_valid, encoding, ended) ==
    [file_path |-> file_path, output_arg |-> output_arg, check_valid |-> check_valid,
     encoding |-> encoding, err |-> ended.err, path |-> ended.path]

FileIdle ==
    /\ files = <<>>
    /\ before = <<>>
    /\ last = NoFileCall
    /\ prev = NoFileCall
    /\ calls = 0
    /\ others = 0

FileStart ==
    /\ \E bytes \in RecFiles : files = [p \in {RecPath} |-> bytes]
    /\ before = <<>>
    /\ last = NoFileCall
    /\ prev = NoFileCall
    /\ calls = 0
    /\ others = 0

\* fix_edf_file(RecPath, output_path, check_valid); `before` keeps the
\* directory as the call found it, `prev` the call made just before it.
FixFile ==
    /\ exists(files, RecPath)
    /\ calls < MaxCalls
    /\ \E encoding \in detect(read(files[RecPath], 256)) :
       \E fixed_header \in {fix_edfplus_header(read(files[RecPath], 256), encoding)} :
       \E output_arg \in {NoPath, OutPath, RecPath}, check_valid \in BOOLEAN :
       \E ended \in {fix_edf_file(files, RecPath, output_arg, check_valid, fixed_header)} :
          /\ files' = ended.files
          /\ last' = FileCall(RecPath, output_arg, check_valid, encoding, ended)
    /\ before' = files
    /\ prev' = last
    /\ calls' = calls + 1
    /\ UNCHANGED <<others, guess_vars, field_vars, header_vars, model_vars, editor_vars, app_vars>>

\* Another program puts a file in the directory, between calls.
OtherCreates ==
    /\ exists(files, RecPath)
    /\ others < MaxOthers
    /\ \E path \in OtherPaths :
          /\ ~exists(files, path)
          /\ files' = write_file(files, path, OtherFile)
    /\ others' = others + 1
    /\ last' = NoFileCall
    /\ prev' = NoFileCall
    /\ UNCHANGED <<before, calls, guess_vars, field_vars, header_vars, model_vars, editor_vars, app_vars>>

\* Another program removes a file other than the recording.
OtherRemoves ==
    /\ exists(files, RecPath)
    /\ others < MaxOthers
    /\ \E path \in DOMAIN files \ {RecPath} : files' = unlink(files, path)
    /\ others' = others + 1
    /\ last' = NoFileCall
    /\ prev' = NoFileCall
    /\ UNCHANGED <<before, calls, guess_vars, field_vars, header_vars, model_vars, editor_vars, app_vars>>

-----------------------------------------------------------------------------
(* EDFModel                                                                *)

MaxWrites == 2     \* most write calls on one model

\* Python's None among header values, and the empty text
NoValue == "None"
FAR_FUTURE == "3000-01-01 00:00:00"

\* What EdfReader reads from a file: header, annotations, signal headers,
\* digital samples, file type and the two legacy header texts.
Recording(filetype, name, patient, signal_headers, signals, annots) ==
    [filetype |-> filetype,
     header |-> [patientname |-> name, startdate |-> "2001-02-03 04:05:06",
                 patient_additional |-> "", recording_additional |-> ""],
     patient |-> patient, recording |-> "Startdate 03-FEB-2001 X X X",
     signal_headers |-> signal_headers, signals |-> signals, annots |-> annots]

Recordings == {
    Recording("EDF+", "Ann", "X F X Ann",
        << [label |-> "EEG", digital_min |-> -8, digital_max |-> 7] >>,
        << <<1, -8, 7, 0>> >>,
        << <<0, 1, "start">>, <<5, 0, "Ann moved">> >>),
    Recording("EDF", "", "Ann F",
        << [label |-> "EEG", digital_min |-> -8, digital_max |-> 7],
           [label |-> "ECG", digital_min |-> 0, digital_max |-> 3] >>,
        << <<1, 2>>, <<3, 0>> >>,
        << >>),
    Recording("EDF+", "Bob", "X M X Bob",
        << >>,
        << >>,
        << <<2, 2, "nap">> >>) }

\* EDFModel.__init__: a legacy EDF file has its two header texts copied
\* into the EDF+ "additional" fields.
loaded_header(r) ==
    [k \in DOMAIN r.header |->
        IF r.filetype = "EDF" /\ k = "patient_additional" THEN r.patient
        ELSE IF r.filetype = "EDF" /\ k = "recording_additional" THEN r.recording
        ELSE r.header[k]]

\* The value update_header stores for one edit
stored_value(field) ==
    IF field.anonymize THEN ""
    ELSE IF field.value # NoValue THEN field.value ELSE ""

\* update_header without the rule for an empty recording start
update_header_keeping_empty(h, edits) ==
    [k \in DOMAIN h \cup DOMAIN edits |->
        IF k \in DOMAIN edits THEN stored_value(edits[k]) ELSE h[k]]

\* EDFModel.update_header(fields)
update_header(h, edits) ==
    LET edited == [k \in DOMAIN h \cup DOMAIN edits |->
                      IF k \in DOMAIN edits THEN stored_value(edits[k]) ELSE h[k]]
    IN  [k \in DOMAIN edited |->
            IF k = "startdate" /\ edited[k] = "" THEN FAR_FUTURE ELSE edited[k]]

\* EDFModel.update_annotations(annotations): a deep copy of the argument
update_annotations(annotations) == annotations

\* The call of write_edf made by EDFModel.write(filename) with sample
\* arrays that are not those of the model
write_other_samples(filename, h, annots, signals, signal_headers) ==
    [filename |-> filename,
     signals |-> [s \in DOMAIN signals |-> [n \in DOMAIN signals[s] |-> 0]],
     signal_headers |-> signal_headers,
     header |-> h, annotations |-> annots, digital |-> FALSE]

\* The call of write_edf made by EDFModel.write(filename)
write(filename, h, annots, signals, signal_headers) ==
    [filename |-> filename, signals |-> signals, signal_headers |-> signal_headers,
     header |-> h, annotations |-> annots, digital |-> TRUE]

\* The edits the editor may hand to update_header
HeaderEdits == {
    [k \in {"patientname"} |-> [anonymize |-> TRUE, value |-> "Ann"]],
    [k \in {"startdate"} |-> [anonymize |-> TRUE, value |-> "2001-02-03 04:05:06"]],
    [k \in {"patientname", "startdate"} |->
        IF k = "patientname" THEN [anonymize |-> FALSE, value |-> "Zed"]
        ELSE [anonymize |-> FALSE, value |-> NoValue]],
    [k \in {"startdate"} |-> [anonymize |-> FALSE, value |-> ""]],
    [k \in {"startdate"} |-> [anonymize |-> FALSE, value |-> "2010-10-10 10:10:10"]] }

\* The lists the editor may hand to update_annotations
AnnotationEdits == { << >>, << <<0, 1, "start">>, <<5, 0, "moved">> >>, << <<5, 0, "Ann moved">> >> }

NoRecording == [signals |-> << >>, signal_headers |-> << >>]

ModelIdle ==
    /\ m_header = << >>
    /\ m_annots = << >>
    /\ m_signals = << >>
    /\ m_signal_headers = << >>
    /\ loaded = NoRecording
    /\ writes = << >>
    /\ m_open = FALSE
    /\ m_edits = << >>

\* EDFModel(path) has returned
ModelStart ==
    /\ \E r \in Recordings :
          /\ m_header = loaded_header(r)
          /\ m_annots = r.annots
          /\ m_signals = r.signals
          /\ m_signal_headers = r.signal_headers
          /\ loaded = [signals |-> r.signals, signal_headers |-> r.signal_headers]
    /\ writes = << >>
    /\ m_open = TRUE
    /\ m_edits = << >>

UpdateHeader ==
    /\ m_open
    /\ \E edits \in HeaderEdits :
          /\ m_header' = update_header(m_header, edits)
          /\ m_edits' = edits
    /\ UNCHANGED <<m_annots, m_signals, m_signal_headers, loaded, writes, m_open,
                   guess_vars, field_vars, header_vars, file_vars,
                   editor_vars, app_vars>>

UpdateAnnotations ==
    /\ m_open
    /\ \E annotations \in AnnotationEdits : m_annots' = update_annotations(annotations)
    /\ UNCHANGED <<m_header, m_signals, m_signal_headers, loaded, writes, m_open, m_edits,
                   guess_vars, field_vars, header_vars, file_vars,
                   editor_vars, app_vars>>

\* EDFModel.write(filename): `writes` is the list of the write_edf calls
Write ==
    /\ m_open
    /\ Len(writes) < MaxWrites
    /\ writes' = Append(writes,
           write("anonymized.edf", m_header, m_annots, m_signals, m_signal_headers))
    /\ UNCHANGED <<m_header, m_annots, m_signals, m_signal_headers, loaded, m_open, m_edits,
                   guess_vars, field_vars, header_vars, file_vars,
                   editor_vars, app_vars>>

-----------------------------------------------------------------------------
(* The editor window: EditorFrame and its two panels                       *)

\* EditorFrame._default_anonymized_fields
_default_anonymized_fields ==
    {"patientcode", "patientname", "patient_additional", "admincode", "technician"}

\* EditorHeaderPanel._setup: for each header field an input holding the
\* field's value and a checkbox, checked for the fields anonymized by default
field_elements(h) ==
    [k \in DOMAIN h |-> [value |-> h[k], anonymize |-> k \in _default_anonymized_fields]]

\* EditorHeaderPanel.get_field_values
get_field_values(field_els) ==
    [k \in DOMAIN field_els |->
        [value |-> field_els[k].value, anonymize |-> field_els[k].anonymize]]

\* EditorAnnotationsPanel._setup: annots_elements, one input holding the
\* annotation's text and one unchecked checkbox for each annotation
annots_inputs(annotations) == [n \in DOMAIN annotations |-> annotations[n][3]]
annots_checkboxes(annotations) == [n \in DOMAIN annotations |-> FALSE]

\* Python's zip: the pairs up to the shorter of the two lists
zip_len(xs, ys) == IF Len(xs) <= Len(ys) THEN Len(xs) ELSE Len(ys)

\* EditorAnnotationsPanel.get_annotation_values: the controls are paired
\* with the annotations the model holds when the method is called
get_annotation_values(inputs, checked, annotations) ==
    LET paired == [k \in 1..zip_len(inputs, annotations) |-> k]
        kept == SelectSeq(paired, LAMBDA k : ~checked[k])
    IN  [j \in 1..Len(kept) |->
            <<annotations[kept[j]][1], annotations[kept[j]][2], inputs[kept[j]]>>]

\* The texts the user may type into an annotation's input
AnnotationTexts == {"moved", ""}

EditorIdle ==
    /\ e_shown = FALSE
    /\ e_loaded = << >>
    /\ e_fields = << >>
    /\ e_inputs = << >>
    /\ e_checked = << >>
    /\ e_saves = << >>

\* EditorFrame(parent, path) has returned for a file the reader accepts
EditorStart ==
    /\ ModelStart
    /\ e_shown = TRUE
    /\ e_loaded = m_annots
    /\ e_fields = field_elements(m_header)
    /\ e_inputs = annots_inputs(m_annots)
    /\ e_checked = annots_checkboxes(m_annots)
    /\ e_saves = << >>

\* The user types a text into the input of one annotation
EditText ==
    /\ e_shown
    /\ \E n \in DOMAIN e_inputs, text \in AnnotationTexts :
          e_inputs' = [k \in DOMAIN e_inputs |-> IF k = n THEN text ELSE e_inputs[k]]
    /\ UNCHANGED <<e_shown, e_loaded, e_fields, e_checked, e_saves,
                   guess_vars, field_vars, header_vars, file_vars, model_vars, app_vars>>

\* The user clicks the remove checkbox of one annotation
ToggleRemove ==
    /\ e_shown
    /\ \E n \in DOMAIN e_checked :
          e_checked' = [k \in DOMAIN e_checked |->
                           IF k = n THEN ~e_checked[k] ELSE e_checked[k]]
    /\ UNCHANGED <<e_shown, e_loaded, e_fields, e_inputs, e_saves,
                   guess_vars, field_vars, header_vars, file_vars, model_vars, app_vars>>

\* EditorFrame.on_save: the file dialog gives a file name or None; e_saves
\* keeps the controls as they were and the list given to update_annotations
OnSave ==
    /\ e_shown
    /\ Len(writes) < MaxWrites
    /\ \E filename \in {NoValue, "anonymized.edf"} :
          IF filename = NoValue
          THEN UNCHANGED <<model_vars, e_saves>>
          ELSE \E edits \in {get_field_values(e_fields)} :
               \E handed \in {get_annotation_values(e_inputs, e_checked, m_annots)} :
               \E h \in {update_header(m_header, edits)} :
                  /\ m_header' = h
                  /\ m_edits' = edits
                  /\ m_annots' = update_annotations(handed)
                  /\ writes' = Append(writes,
                         write(filename, h, update_annotations(handed),
                               m_signals, m_signal_headers))
                  /\ e_saves' = Append(e_saves,
                         [inputs |-> e_inputs, checked |-> e_checked, handed |-> handed])
                  /\ UNCHANGED <<m_open, m_signals, m_signal_headers, loaded>>
    /\ UNCHANGED <<e_shown, e_loaded, e_fields, e_inputs, e_checked,
                   guess_vars, field_vars, header_vars, file_vars, app_vars>>

-----------------------------------------------------------------------------
(* The application window: AppFrame.open_editor                            *)

MaxOpens == 3      \* most calls of open_editor in a behaviour

\* The message dialogs of editor.py and app.py
NOT_COMPLIANT == "The selected file is not EDF(+) compliant."
REPAIR_OFFER == "Do you want to try to fix it automatically?"
NOT_FIXED == "The file could not be fixed automatically."
NOT_OPENED == "The file could not be opened."

\* EDFModel(path): EdfReader's OSError becomes InvalidFileError
EDFModel(fs, path) ==
    IF reader_opens(fs[path]) THEN "none" ELSE "InvalidFileError"

\* EditorFrame(parent, path): _read_edf handles InvalidFileError itself,
\* shows its dialog and closes the frame without setting self.model;
\* _setup then reads self.model.
EditorFrame(fs, path) ==
    IF EDFModel(fs, path) = "InvalidFileError"
    THEN [err |-> "AttributeError", dialogs |-> <<NOT_COMPLIANT>>, invalid |-> TRUE]
    ELSE [err |-> "none", dialogs |-> << >>, invalid |-> FALSE]

\* editor.Open(): EditorFrame defines no such method.  The call returns,
\* raises AttributeError, or raises the InvalidFileError that open_editor
\* handles.
OpenOutcomes == {"none", "AttributeError", "InvalidFileError"}

\* What one call of open_editor did: the directory it leaves, how it ended
\* ("none" when it returned), the dialogs it showed in their order, whether
\* loading a file raised InvalidFileError, whether the debug frame and an
\* editor were shown, and the call of fix_edf_file it made.
Flow(fs, filename, err, dialogs, invalid, debug, fix, shown) ==
    [called |-> TRUE, files |-> fs, filename |-> filename, err |-> err,
     dialogs |-> dialogs, invalid |-> invalid, debug |-> debug,
     fix_called |-> fix.called, fix_file |-> fix.file_path, fix_err |-> fix.err,
     shown |-> shown]

NoFix == [called |-> FALSE, file_path |-> NoPath, err |-> "pending"]
Fix(file_path, fixing) == [called |-> TRUE, file_path |-> file_path, err |-> fixing.err]

\* open_editor from the return of fix_edf_file on: the second EditorFrame
\* and its Open()
reopen_editor(filename, debug, fixing, reopened) ==
    LET second == EditorFrame(fixing.files, fixing.path)
        fix == Fix(filename, fixing)
    IN  IF second.err # "none"
        THEN Flow(fixing.files, filename, second.err, <<REPAIR_OFFER>> \o second.dialogs,
                  second.invalid, debug, fix, FALSE)
        ELSE IF reopened = "none"
        THEN Flow(fixing.files, filename, "none", <<REPAIR_OFFER>>, FALSE, debug, fix, TRUE)
        ELSE IF reopened = "InvalidFileError"
        THEN Flow(fixing.files, filename, "none", <<REPAIR_OFFER, NOT_OPENED>>,
                  FALSE, debug, fix, FALSE)
        ELSE Flow(fixing.files, filename, reopened, <<REPAIR_OFFER>>, FALSE, debug, fix, FALSE)

\* open_editor from its except InvalidFileError on: the repair offer, the
\* call of fix_edf_file and what follows it
offer_repair(fs, filename, should_fix, show_debug, fixing, reopened) ==
    IF ~should_fix
    THEN Flow(fs, filename, "none", <<REPAIR_OFFER>>, FALSE, show_debug, NoFix, FALSE)
    ELSE IF fixing.err = "RuntimeError"
    THEN Flow(fixing.files, filename, "none", <<REPAIR_OFFER, NOT_FIXED>>,
              FALSE, show_debug, Fix(filename, fixing), FALSE)
    ELSE IF fixing.err # "none"
    THEN Flow(fixing.files, filename, fixing.err, <<REPAIR_OFFER>>,
              FALSE, show_debug, Fix(filename, fixing), FALSE)
    ELSE reopen_editor(filename, show_debug, fixing, reopened)

\* AppFrame.open_editor(filename) in the directory fs: `opened` and
\* `reopened` are what the two calls of editor.Open() do, should_fix and
\* show_debug the user's answers to the repair offer, and fixing is what
\* fix_edf_file(filename) does.
open_editor(fs, filename, opened, should_fix, show_debug, fixing, reopened) ==
    LET first == EditorFrame(fs, filename)
    IN  IF first.err # "none"
        THEN Flow(fs, filename, first.err, first.dialogs, first.invalid, FALSE, NoFix, FALSE)
        ELSE IF opened = "none"
        THEN Flow(fs, filename, "none", << >>, FALSE, FALSE, NoFix, TRUE)
        ELSE IF opened = "InvalidFileError"
        THEN offer_repair(fs, filename, should_fix, show_debug, fixing, reopened)
        ELSE Flow(fs, filename, opened, << >>, FALSE, FALSE, NoFix, FALSE)

NoOpen == [called |-> FALSE]

\* open_editor has not been called
AppIdle ==
    /\ a_files = << >>
    /\ a_last = NoOpen
    /\ a_opens = 0

\* The application window is shown and the directory holds one file
AppStart ==
    /\ \E bytes \in RecFiles : a_files = [p \in {RecPath} |-> bytes]
    /\ a_last = NoOpen
    /\ a_opens = 0

\* The user opens or drops a file of the directory: open_editor(filename)
OpenEditor ==
    /\ a_opens < MaxOpens
    /\ \E filename \in DOMAIN a_files :
       \E opened \in OpenOutcomes, reopened \in OpenOutcomes :
       \E should_fix \in BOOLEAN, show_debug \in BOOLEAN :
       \E encoding \in detect(read(a_files[filename], 256)) :
       \E fixed_header \in {fix_edfplus_header(read(a_files[filename], 256), encoding)} :
       \E fixing \in {fix_edf_file(a_files, filename, NoPath, TRUE, fixed_header)} :
       \E flow \in {open_editor(a_files, filename, opened, should_fix, show_debug,
                                fixing, reopened)} :
          /\ a_files' = flow.files
          /\ a_last' = flow
    /\ a_opens' = a_opens + 1
    /\ UNCHANGED <<guess_vars, field_vars, header_vars, file_vars, model_vars, editor_vars>>

-----------------------------------------------------------------------------
(* Specifications                                                          *)

GuessInit == GuessStart /\ FieldIdle /\ HeaderIdle /\ FileIdle /\ ModelIdle /\ EditorIdle /\ AppIdle
GuessNext == ProcessGuesses
SpecGuess == GuessInit /\ [][GuessNext]_vars

FieldInit == GuessIdle /\ FieldStart /\ HeaderIdle /\ FileIdle /\ ModelIdle /\ EditorIdle /\ AppIdle
FieldNext == BasicFix \/ HeuristicFix \/ BasicFixAgain
SpecField == FieldInit /\ [][FieldNext]_vars

CompliantInit == GuessIdle /\ CompliantStart /\ HeaderIdle /\ FileIdle /\ ModelIdle /\ EditorIdle /\ AppIdle
CompliantNext == BasicFix \/ BasicFixAgain
SpecCompliant == CompliantInit /\ [][CompliantNext]_vars

HeaderInit == GuessIdle /\ FieldIdle /\ HeaderStart /\ FileIdle /\ ModelIdle /\ EditorIdle /\ AppIdle
HeaderNext == FixHeader
SpecHeader == HeaderInit /\ [][HeaderNext]_vars

FileInit == GuessIdle /\ FieldIdle /\ HeaderIdle /\ FileStart /\ ModelIdle /\ EditorIdle /\ AppIdle
FileNext == FixFile \/ OtherCreates \/ OtherRemoves
SpecFile == FileInit /\ [][FileNext]_vars

ModelInit == GuessIdle /\ FieldIdle /\ HeaderIdle /\ FileIdle /\ ModelStart /\ EditorIdle /\ AppIdle
ModelNext == UpdateHeader \/ UpdateAnnotations \/ Write
SpecModel == ModelInit /\ [][ModelNext]_vars

EditorInit == GuessIdle /\ FieldIdle /\ HeaderIdle /\ FileIdle /\ EditorStart /\ AppIdle
EditorNext == EditText \/ ToggleRemove \/ OnSave
SpecEditor == EditorInit /\ [][EditorNext]_vars

AppInit == GuessIdle /\ FieldIdle /\ HeaderIdle /\ FileIdle /\ ModelIdle /\ EditorIdle /\ AppStart
AppNext == OpenEditor
SpecApp == AppInit /\ [][AppNext]_vars

-----------------------------------------------------------------------------
(* Properties of process_field_guesses and the patient merge (SpecGuess)   *)

Processed == pfg.err # "pending"

\* The Python indices of the tokens that are the source of an accepted guess
AcceptedSources == {pfg.accepted[t].field : t \in DOMAIN pfg.accepted}

\* The tokens whose index is the source of no accepted guess, in order
Unaccepted ==
    LET Keep(i) == (i - 1) \notin AcceptedSources
        kept == SelectSeq(Indices(fields), Keep)
    IN  [k \in DOMAIN kept |-> fields[kept[k]]]

\* Some token is the source of the accepted guesses of two types.
SharedSource ==
    \E t, u \in DOMAIN pfg.accepted :
        t # u /\ pfg.accepted[t].field = pfg.accepted[u].field

\* The place of a guess type among the canonical patient slots
LpiSlot(t) ==
    CASE t = "code" -> 1 [] t = "sex" -> 2 [] t = "birthdate" -> 3 [] t = "name" -> 4

TokenOf(i) == fields[guesses[i].field + 1]

\* guesses[i] and guesses[j] are all the guesses of their type, they come
\* from two tokens, and these two tokens give no other guess.
TheTwoOfTheirType(i, j) ==
    /\ i # j
    /\ guesses[i].type = guesses[j].type
    /\ \A k \in DOMAIN guesses : guesses[k].type = guesses[i].type => k \in {i, j}
    /\ guesses[i].field # guesses[j].field
    /\ \A k \in DOMAIN guesses \ {i, j} :
           guesses[k].field \notin {guesses[i].field, guesses[j].field}

\* C1: whatever the guesses (a token may be the source of guesses of
\* several types), the call raises nothing, the leftover list is exactly the
\* tokens that are the source of no accepted guess, verbatim and in order,
\* and the patient field is the four canonical slots followed by them.
C1_LeftoverIsTheUnacceptedTokens ==
    Processed =>
        /\ pfg.err = "none"
        /\ pfg.extra_fields = Unaccepted
        /\ lpi_out = Returned(unidecode(join(
               lpi_compliant_fields(pfg.best_guesses, Unaccepted))))

\* Where no token is the source of two accepted guesses, C1 does hold.
C1_HoldsWithoutSharedSource ==
    (Processed /\ ~SharedSource) => C1_LeftoverIsTheUnacceptedTokens

\* C2: two guesses that are all the guesses of their type, of equal
\* confidence and differing values: the type's canonical slot is "X" and
\* both source tokens are in the leftover list.
C2_TieLeavesSlotEmptyAndBothTokens ==
    Processed =>
        \A i, j \in DOMAIN guesses :
            ( /\ TheTwoOfTheirType(i, j)
              /\ guesses[i].confidence = guesses[j].confidence
              /\ guesses[i].value # guesses[j].value )
            => /\ pfg.err = "none"
               /\ guesses[i].type \notin DOMAIN pfg.best_guesses
               /\ lpi_compliant_fields(pfg.best_guesses, pfg.extra_fields)
                      [LpiSlot(guesses[i].type)] = X
               /\ TokenOf(i) \in Range(pfg.extra_fields)
               /\ TokenOf(j) \in Range(pfg.extra_fields)

\* Where no token is the source of two accepted guesses, C2 does hold.
C2_HoldsWithoutSharedSource ==
    (Processed /\ ~SharedSource) => C2_TieLeavesSlotEmptyAndBothTokens

\* C3: two guesses that are all the guesses of their type, guesses[i] the
\* more confident: the type's slot holds the value of guesses[i], whichever
\* token comes first, and of the two source tokens only that of guesses[i]
\* has left the leftover list.
C3_HigherConfidenceWins ==
    Processed =>
        \A i, j \in DOMAIN guesses :
            ( /\ TheTwoOfTheirType(i, j)
              /\ guesses[i].confidence > guesses[j].confidence )
            => /\ pfg.err = "none"
               /\ guesses[i].type \in DOMAIN pfg.best_guesses
               /\ pfg.best_guesses[guesses[i].type] = guesses[i].value
               /\ TokenOf(i) \notin Range(pfg.extra_fields)
               /\ TokenOf(j) \in Range(pfg.extra_fields)

\* Where no token is the source of two accepted guesses, C3 does hold.
C3_HoldsWithoutSharedSource ==
    (Processed /\ ~SharedSource) => C3_HigherConfidenceWins

-----------------------------------------------------------------------------
(* Properties of the fixers of one field (SpecField)                       *)

\* The token list of a patient field, padded with "X" up to 4 tokens
LpiTokensOf(text) == pad_X(re_split(text), 4)

\* The strict patient fixer must reject: the sex token is none of m, f, x,
\* or the birthdate token is neither x nor a date.
LpiRejected(text) ==
    \/ lower(LpiTokensOf(text)[2]) \notin {<<"m">>, <<"f">>, <<"x">>}
    \/ /\ lower(LpiTokensOf(text)[3]) # <<"x">>
       /\ dateparser_parse(LpiTokensOf(text)[3]) = None

\* The tokens with the birthdate, when there is one, as DD-MMM-YYYY
LpiRerendered(text) ==
    [k \in DOMAIN LpiTokensOf(text) |->
        IF k = 3 /\ lower(LpiTokensOf(text)[3]) # <<"x">>
        THEN format_edf_long_date(dateparser_parse(LpiTokensOf(text)[3]))
        ELSE LpiTokensOf(text)[k]]

BasicLpiCalled == f_kind = "lpi" /\ f_first.op = "basic"

\* C5 as stated: basic_fix_lpi_format raises FieldFormatError exactly on the
\* rejected fields, and otherwise returns the tokens joined by single
\* spaces, the birthdate re-rendered and every other token as it was.
C5_StrictLpiKeepsTokens ==
    BasicLpiCalled =>
        /\ f_first.err = "FieldFormatError" <=> LpiRejected(f_text)
        /\ ~LpiRejected(f_text) =>
               /\ f_first.err = "none"
               /\ f_first.value = join(LpiRerendered(f_text))

\* C5 amended: basic_fix_lpi_format raises FieldFormatError exactly on the
\* rejected fields, and otherwise returns the transliteration to ASCII of
\* the tokens joined by single spaces, the birthdate re-rendered and every
\* other token in its place.
C5_StrictLpiTransliterates ==
    BasicLpiCalled =>
        /\ f_first.err = "FieldFormatError" <=> LpiRejected(f_text)
        /\ ~LpiRejected(f_text) =>
               /\ f_first.err = "none"
               /\ f_first.value = unidecode(join(LpiRerendered(f_text)))

\* A three-token field with a lower-case sex, a date to re-render and a
\* letter outside ASCII has been padded and fixed by the strict path.
C5_Witness ==
    /\ BasicLpiCalled
    /\ f_first.err = "none"
    /\ Len(re_split(f_text)) = 3
    /\ LpiTokensOf(f_text)[1] = T_ZOE
    /\ LpiTokensOf(f_text)[2] = T_f
    /\ LpiTokensOf(f_text)[3] = T_ISO
    /\ f_first.value = <<"Z", "o", "e", " ", "f", " ",
                         "0", "2", "-", "F", "E", "B", "-", "2", "0", "0", "1",
                         " ", "X">>

-----------------------------------------------------------------------------
(* Properties of fix_edfplus_header (SpecHeader)                           *)

HeaderFixed == hdr_out.err # "pending"

\* The two fields as fix_edfplus_header reads them from the decoded header
LpiOf(bytes, encoding) == strip(Slice(decode(bytes, encoding), 8, 8 + 80))
LriOf(bytes, encoding) == strip(Slice(decode(bytes, encoding), 88, 88 + 80))

\* The token list of a recording field, padded with "X" up to 5 tokens
LriTokensOf(text) == pad_X(re_split(text), 5)

\* The strict recording fixer must reject: the first token is not
\* "startdate" in any case, or the date token is neither x nor a date.
LriRejected(text) ==
    \/ lower(LriTokensOf(text)[1]) # lower(STARTDATE)
    \/ /\ lower(LriTokensOf(text)[2]) # <<"x">>
       /\ dateparser_parse(LriTokensOf(text)[2]) = None

\* C4: in fix_edfplus_header each of the two fields is handled by the
\* heuristic path exactly when its own strict path rejects it, whatever
\* happened to the other field, and no FieldFormatError leaves the call.
C4_FallbackPerField ==
    HeaderFixed =>
        /\ hdr_out.lpi_path =
               IF LpiRejected(LpiOf(header, hdr_out.encoding))
               THEN "heuristic" ELSE "basic"
        /\ hdr_out.lri_path =
               IF LriRejected(LriOf(header, hdr_out.encoding))
               THEN "heuristic" ELSE "basic"
        /\ hdr_out.err # "FieldFormatError"

\* The patient field "X Q 01-Jan-2000 X" went through the heuristic path
\* and came out rebuilt, beside a recording field the strict path accepted.
C4_Witness ==
    /\ HeaderFixed
    /\ LpiOf(header, hdr_out.encoding) =
           <<"X", " ", "Q", " ", "0", "1", "-", "J", "a", "n", "-", "2", "0", "0", "0", " ", "X">>
    /\ hdr_out.lpi_path = "heuristic"
    /\ hdr_out.lri_path = "basic"
    /\ hdr_out.err = "none"
    /\ strip(Slice(hdr_out.value, 8, 8 + 80)) =
           <<"X", " ", "X", " ", "0", "1", "-", "J", "A", "N", "-", "2", "0", "0", "0",
             " ", "X", " ", "X", " ", "Q", " ", "X">>

\* Some header has its patient field rejected and its recording field
\* accepted, and some header the reverse.
C4_WitnessRecordingOnly ==
    /\ HeaderFixed
    /\ hdr_out.lpi_path = "basic"
    /\ hdr_out.lri_path = "heuristic"
    /\ hdr_out.err = "none"

\* The offsets fix_edfplus_header rewrites: the patient field, the
\* recording field and the reserved field that holds the file-type marker
OwnedByFixer(i) == i \in 8..(88 - 1) \/ i \in 88..(168 - 1) \/ i \in 192..(236 - 1)

EdfVersion(bytes) == Slice(bytes, 0, 8) = ljust(<<"0">>, 8)

FramePreserved ==
    /\ hdr_out.err = "none"
    /\ Len(hdr_out.value) = 256
    /\ \A i \in 0..(256 - 1) :
           ~OwnedByFixer(i) => hdr_out.value[i + 1] = header[i + 1]
    /\ Slice(hdr_out.value, 192, 236) = ljust(EDF_PLUS_C, 44)

\* C6: for every 256-byte header that decodes (here: with the version
\* field "0" that EDF prescribes, and on which the call returns),
\* fix_edfplus_header returns 256 bytes, every byte outside the patient,
\* recording and file-type marker fields is the input byte at that offset,
\* and the marker field is "EDF+C" padded with spaces.
C6_FramePreservedForEveryHeader ==
    (HeaderFixed /\ EdfVersion(header) /\ hdr_out.err = "none") => FramePreserved

\* On the headers that are ASCII throughout the call returns and C6 holds.
C6_HoldsForAsciiHeaders ==
    (HeaderFixed /\ EdfVersion(header) /\ AllAscii(header)) => FramePreserved

\* So it does when the detector names a single-byte charset and the call
\* returns.
C6_HoldsForSingleByteCharset ==
    (HeaderFixed /\ EdfVersion(header) /\ hdr_out.err = "none"
        /\ hdr_out.encoding # "utf-8") => FramePreserved

-----------------------------------------------------------------------------
(* Properties of fix_edf_file (SpecFile)                                   *)

FileCalled == last.err # "pending"
FileReturned == last.err = "none"

\* The source file as the last call found it
SourceBefore == before[last.file_path]

\* C7: after fix_edf_file returns an output path, the output file is as
\* long as the source, equals it at every offset from 256 on, and the
\* source file has the bytes it had.
C7_OutputIsSourceBeyondHeader ==
    FileReturned =>
        /\ exists(files, last.path)
        /\ Len(files[last.path]) = Len(SourceBefore)
        /\ \A i \in DOMAIN SourceBefore :
               i > 256 => files[last.path][i] = SourceBefore[i]
        /\ files[last.file_path] = SourceBefore

\* For a source that holds a whole 256-byte header, C7 does hold.
C7_HoldsForWholeHeader ==
    (FileReturned /\ Len(SourceBefore) >= 256) => C7_OutputIsSourceBeyondHeader

\* The file that the last call gave to the reader: the source's bytes with
\* the fixed header written over the first ones.
PatchedHeader == fix_edfplus_header(read(SourceBefore, 256), last.encoding)
PatchedFile == PatchedHeader.value \o SliceFrom(SourceBefore, Len(PatchedHeader.value))
ReaderWasRun ==
    /\ FileCalled
    /\ last.check_valid
    /\ PatchedHeader.err = "none"
    /\ last.path # last.file_path

\* C8: with check_valid set, when the reader fails to open the patched
\* output the call ends with the could-not-repair error and no file is at
\* output_path; when the call returns, the file at output_path is the
\* patched output and the reader opens it.
C8_NoUnreadableFileLeft ==
    (FileCalled /\ last.check_valid) =>
        LET fixed == fix_edfplus_header(read(SourceBefore, 256), last.encoding)
            patched == fixed.value \o SliceFrom(SourceBefore, Len(fixed.value))
        IN  /\ (fixed.err = "none" /\ last.path # last.file_path
                   /\ ~reader_opens(patched)) =>
                   /\ last.err = "RuntimeError"
                   /\ ~exists(files, last.path)
            /\ FileReturned =>
                   /\ exists(files, last.path)
                   /\ files[last.path] = patched
                   /\ reader_opens(patched)

\* A call that patched a file with damaged records over a file another
\* program had put at output_path ended with the error and left no file.
C8_Witness ==
    /\ ReaderWasRun
    /\ Len(PatchedFile) > 256
    /\ ~reader_opens(PatchedFile)
    /\ exists(before, last.path)
    /\ last.err = "RuntimeError"
    /\ ~exists(files, last.path)

\* Some call with check_valid set returned and left the patched file.
C8_WitnessReturned ==
    /\ ReaderWasRun
    /\ FileReturned
    /\ exists(files, last.path)
    /\ files[last.path] # SourceBefore

\* The n-th name derived from the recording: rec_fixed.edf for n = 1,
\* rec_fixed_<n>.edf from n = 2 on
DerivedName(n) ==
    IF n = 1 THEN Path("rec_fixed", ".edf")
    ELSE Path("rec_fixed_" \o ToString(n), ".edf")

Derived(call) == call.err # "pending" /\ call.output_arg = NoPath

\* C9: a call without output_path writes to no path that exists: its
\* output path is rec_fixed.edf, or rec_fixed_<n>.edf for the smallest
\* n >= 2 whose name is free, and every file that existed is as it was.  Of
\* two successive calls that return, the second has a path different from
\* the first with a numeric suffix, and leaves the first output as it was.
C9_DerivedPathNeverOverwrites ==
    Derived(last) =>
        /\ ~exists(before, last.path)
        /\ \E n \in 1..(MaxCalls + MaxOthers + 1) :
               /\ last.path = DerivedName(n)
               /\ \A m \in 1..(n - 1) : exists(before, DerivedName(m))
        /\ \A p \in DOMAIN before : exists(files, p) /\ files[p] = before[p]
        /\ (FileReturned /\ Derived(prev) /\ prev.err = "none") =>
               /\ last.path # prev.path
               /\ last.path # DerivedName(1)
               /\ exists(files, prev.path) /\ exists(files, last.path)
               /\ files[prev.path] = before[prev.path]

\* Two successive calls returned, the first wrote rec_fixed.edf and the
\* second, finding rec_fixed_2.edf taken by another program, rec_fixed_3.edf.
C9_Witness ==
    /\ Derived(last) /\ FileReturned
    /\ Derived(prev) /\ prev.err = "none"
    /\ prev.path = DerivedName(1)
    /\ last.path = DerivedName(3)
    /\ files[DerivedName(2)] = OtherFile
    /\ files[DerivedName(1)] = files[DerivedName(3)]

-----------------------------------------------------------------------------
(* Properties of EDFModel (SpecModel)                                      *)

\* C10: whatever update_header, update_annotations and write calls were
\* made, the model holds the sample arrays and signal headers read at
\* load, and every write passed exactly those, as digital values.
C10_SamplesUnchanged ==
    m_open =>
        /\ m_signals = loaded.signals
        /\ m_signal_headers = loaded.signal_headers
        /\ \A w \in DOMAIN writes :
               /\ writes[w].signals = loaded.signals
               /\ writes[w].signal_headers = loaded.signal_headers
               /\ writes[w].digital

\* Two writes of a recording with samples, with a header edit and an
\* annotation edit between them: they differ in header and annotations.
C10_Witness ==
    /\ m_open
    /\ Len(writes) = 2
    /\ loaded.signals # << >>
    /\ writes[1].header # writes[2].header
    /\ writes[1].annotations # writes[2].annotations
    /\ writes[1].signals = writes[2].signals
    /\ writes[2].header.startdate = FAR_FUTURE

\* An edit of the recording start that leaves no value: the field is
\* flagged anonymize, or carries None or the empty text.
ClearsStartdate(edits) ==
    /\ "startdate" \in DOMAIN edits
    /\ \/ edits["startdate"].anonymize
       \/ edits["startdate"].value \in {NoValue, ""}

HeaderUpdated == m_open /\ m_edits # << >>

\* C11: after every update_header call the stored recording start is not
\* empty, and it is 3000-01-01 00:00:00 whenever the edit left no value.
C11_StartdateNeverEmpty ==
    HeaderUpdated =>
        /\ m_header["startdate"] # ""
        /\ m_header["startdate"] # NoValue
        /\ ClearsStartdate(m_edits) => m_header["startdate"] = "3000-01-01 00:00:00"

\* The last of several update_header calls was given a recording start of
\* None, not flagged, after a call that had set a date: the far-future date
\* is stored, next to the name given in the same call.
C11_Witness ==
    /\ HeaderUpdated
    /\ "startdate" \in DOMAIN m_edits
    /\ ~m_edits["startdate"].anonymize
    /\ m_edits["startdate"].value = NoValue
    /\ m_header["startdate"] = "3000-01-01 00:00:00"
    /\ m_header["patientname"] = "Zed"
    /\ Len(writes) > 0
    /\ writes[Len(writes)].header["startdate"] = "2010-10-10 10:10:10"

-----------------------------------------------------------------------------
(* Idempotence of the strict patient fixer (SpecCompliant)                 *)

\* The field given to the fixer is compliant: at least 4 tokens, the sex
\* token M, F or X, the birthdate token X or a date written DD-MMM-YYYY.
IsCompliantLpi(text) ==
    /\ Len(re_split(text)) >= 4
    /\ re_split(text)[2] \in {<<"M">>, <<"F">>, X}
    /\ \/ re_split(text)[3] = X
       \/ /\ dateparser_parse(re_split(text)[3]) # None
          /\ re_split(text)[3] = format_edf_long_date(dateparser_parse(re_split(text)[3]))

FixedTwice == BasicLpiCalled /\ f_first.err = "none" /\ f_second.op = "basic"

\* C12: on a compliant patient field l, basic_fix_lpi_format(l) succeeds,
\* and basic_fix_lpi_format applied to its result succeeds and returns that
\* same result.
C12_StrictLpiIdempotent ==
    /\ (BasicLpiCalled /\ IsCompliantLpi(f_text)) => f_first.err = "none"
    /\ (FixedTwice /\ IsCompliantLpi(f_text)) =>
           /\ f_second.err = "none"
           /\ f_second.value = f_first.value

\* On the compliant fields written in ASCII, C12 does hold.
C12_HoldsForAsciiFields ==
    AllAscii(f_text) => C12_StrictLpiIdempotent

-----------------------------------------------------------------------------
(* The conflict rule with any number of guesses per type (SpecGuess)       *)

OfType(t) == {i \in DOMAIN guesses : guesses[i].type = t}

\* The guesses of type t that no guess of that type exceeds in confidence
TopOfType(t) ==
    {i \in OfType(t) : \A j \in OfType(t) : guesses[j].confidence <= guesses[i].confidence}

TopConflict(t) ==
    \E i, j \in TopOfType(t) : guesses[i].value # guesses[j].value

\* Every guess comes from a token of its own.
DistinctSources ==
    \A i, j \in DOMAIN guesses : i # j => guesses[i].field # guesses[j].field

\* C13: whatever the number of guesses of a type, when its most confident
\* guesses include two of differing values no guess of that type is
\* accepted, not one of equal nor one of lower confidence: the slot is "X"
\* and the tokens of all its guesses stay in the leftover list.  (Stated
\* where every guess comes from a token of its own.)
C13_ConflictLeavesNoFallback ==
    (Processed /\ DistinctSources) =>
        \A t \in {"sex", "birthdate", "name"} :
            TopConflict(t) =>
                /\ pfg.err = "none"
                /\ t \notin DOMAIN pfg.best_guesses
                /\ lpi_compliant_fields(pfg.best_guesses, pfg.extra_fields)[LpiSlot(t)] = X
                /\ \A i \in OfType(t) : TokenOf(i) \in Range(pfg.extra_fields)

\* With exactly two guesses of the type, C13 does hold.
C13_HoldsForTwoGuesses ==
    (Processed /\ DistinctSources) =>
        \A t \in {"sex", "birthdate", "name"} :
            (TopConflict(t) /\ Cardinality(OfType(t)) = 2) =>
                /\ pfg.err = "none"
                /\ t \notin DOMAIN pfg.best_guesses
                /\ \A i \in OfType(t) : TokenOf(i) \in Range(pfg.extra_fields)

-----------------------------------------------------------------------------
(* Properties of the editor's save (SpecEditor)                            *)

\* The loaded annotations whose checkbox is unchecked, in their order,
\* each with its own onset and duration and the text of its own input
KeptAnnotations(annotations, inputs, checked) ==
    LET kept == SelectSeq([k \in DOMAIN annotations |-> k], LAMBDA k : ~checked[k])
    IN  [j \in 1..Len(kept) |->
            <<annotations[kept[j]][1], annotations[kept[j]][2], inputs[kept[j]]>>]

SaveIsRight(k) ==
    /\ e_saves[k].handed = KeptAnnotations(e_loaded, e_saves[k].inputs, e_saves[k].checked)
    /\ k \in DOMAIN writes
    /\ writes[k].annotations = e_saves[k].handed

\* C14: at every save of an editor session, the first and the later ones,
\* the list given to update_annotations and written is the loaded
\* annotations whose remove checkbox is unchecked, in the original order,
\* each with its own onset and duration and the text of its own input.
C14_EverySaveHandsKeptAnnotations ==
    \A k \in DOMAIN e_saves : SaveIsRight(k)

\* C14 holds for the first save of a session.
C14_HoldsForFirstSave ==
    e_saves # << >> => SaveIsRight(1)

\* C14 holds for a save as long as no earlier save removed an annotation.
C14_HoldsWhileNothingRemoved ==
    \A k \in DOMAIN e_saves :
        (\A j \in 1..(k - 1) : \A n \in DOMAIN e_saves[j].checked : ~e_saves[j].checked[n])
            => SaveIsRight(k)

\* A second save after a first one that removed an annotation
C14_SecondSaveAfterRemoval ==
    /\ Len(e_saves) = 2
    /\ \E n \in DOMAIN e_saves[1].checked : e_saves[1].checked[n]

-----------------------------------------------------------------------------
(* Properties of the heuristic fixers (SpecField)                          *)

HeuristicCalled == f_first.op = "heuristic"

\* A token of the form DD-MMM-YYYY, MMM a month of MONTHS
IsEdfLongDate(token) ==
    /\ Len(token) = 11
    /\ \A i \in {1, 2, 8, 9, 10, 11} : IsDigit(token[i])
    /\ token[3] = "-"
    /\ token[7] = "-"
    /\ SubSeq(token, 4, 6) \in Range(MONTHS)

\* The shape the claim states for what the heuristic fixers return
HeuristicShape(kind, tokens) ==
    IF kind = "lpi"
    THEN /\ Len(tokens) >= 4
         /\ tokens[2] \in {<<"M">>, <<"F">>, X}
         /\ tokens[3] = X \/ IsEdfLongDate(tokens[3])
    ELSE /\ Len(tokens) >= 5
         /\ tokens[1] = STARTDATE
         /\ tokens[2] = X \/ IsEdfLongDate(tokens[2])

C15_WitnessRecording ==
    /\ f_kind = "lri"
    /\ HeuristicCalled
    /\ basic_fix_lri_format(f_text).err = "FieldFormatError"
    /\ f_first.err = "none"
    /\ Len(re_split(f_first.value)) >= 5
    /\ IsEdfLongDate(re_split(f_first.value)[2])
    /\ f_second.op = "basic"
    /\ f_second.err = "none"

-----------------------------------------------------------------------------
(* Properties of open_editor (SpecApp)                                     *)

OpenEditorCalled == a_last.called

LoadFailed == OpenEditorCalled /\ a_last.invalid

Shown(dialog) == \E i \in DOMAIN a_last.dialogs : a_last.dialogs[i] = dialog

\* C16: whenever loading the file raises InvalidFileError in open_editor,
\* the repair offer is shown; when the user accepts it fix_edf_file is
\* called on that file; a failure of fix_edf_file is reported as "could
\* not be fixed" and a failed re-open of the fixed file as "could not be
\* opened"; no exception ends the call.
C16_LoadErrorLeadsToRepairOffer ==
    LoadFailed =>
        /\ Shown(REPAIR_OFFER)
        /\ a_last.fix_called => a_last.fix_file = a_last.filename
        /\ (a_last.fix_called /\ a_last.fix_err # "none") => Shown(NOT_FIXED)
        /\ a_last.err = "none"

\* What open_editor does instead: the InvalidFileError is handled inside
\* EditorFrame, whose own dialog is the only one shown; no repair is
\* offered or made, and the call ends with an AttributeError.
C16_LoadErrorEndsInsideEditorFrame ==
    LoadFailed =>
        /\ a_last.dialogs = <<NOT_COMPLIANT>>
        /\ ~a_last.fix_called
        /\ a_last.err = "AttributeError"

\* From the repair offer on the call does what the claim says as long as
\* fix_edf_file returns or raises RuntimeError and Open() raises nothing
\* but InvalidFileError.
C16_HoldsFromTheOfferOn ==
    (OpenEditorCalled /\ Shown(REPAIR_OFFER)) =>
        /\ a_last.fix_called => a_last.fix_file = a_last.filename
        /\ (a_last.fix_called /\ a_last.fix_err = "RuntimeError") => Shown(NOT_FIXED)
        /\ (a_last.fix_called /\ a_last.fix_err = "none" /\ a_last.err = "none")
               => (a_last.shown \/ Shown(NOT_OPENED))

\* open_editor has been called on a file the reader rejects
C16_InvalidFileOpened ==
    /\ LoadFailed
    /\ ~reader_opens(a_last.files[a_last.filename])

\* The repair offer has been accepted and the fixed file shown
C16_FixedFileShown ==
    /\ OpenEditorCalled
    /\ Shown(REPAIR_OFFER)
    /\ a_last.fix_called
    /\ a_last.shown

====
